---- MODULE Spec2Model ----
(***************************************************************************)
(* Hand_Track: rule-based gesture classification and temporal              *)
(* stabilization, as implemented by the three programs of the repository:  *)
(*   enhanced  src/gesture_recognition_enhanced.py  (eight gestures)       *)
(*   improved  src/gesture_recognition_improved.py  (three gestures,       *)
(*             confidence and stability)                                   *)
(*   tracking  src/gesture_recognition_tracking.py  (three gestures)       *)
(*                                                                         *)
(* A run of the model is a run of ONE of the programs (variable variant)   *)
(* over a video: one step per frame.  The landmark detector is outside the *)
(* model: a detected hand is given by the finger states the programs       *)
(* derive from its landmarks, and by whether thumb tip and index tip are   *)
(* closer than 0.05 (the only other landmark fact a classifier reads).     *)
(* Confidences are in hundredths (0.95 is 95); ratios are kept as          *)
(* [num, den]; frame times are in ticks of 1/60 s.                         *)
(*                                                                         *)
(* Spec          the programs as they construct their recognizers          *)
(* SpecClassify  recognize_gesture alone, on any hand record               *)
(* SpecConfig    the recognizers constructed with other arguments          *)
(* SpecGeometry  recognize_gesture from the landmarks of a hand on         *)
(***************************************************************************)
EXTENDS Integers, Sequences, FiniteSets, TLC

VARIABLES
    variant,          \* which of the three programs runs
    status,           \* "new" before construction, "running", "error" once raised
    buffer_size,      \* enhanced: the capacity the recognizer was constructed with
    confidence_threshold,  \* improved: the threshold the recognizer was constructed with
    frame_count,      \* frames read so far
    hands,            \* the hands the detector supplied for the last frame
    frame_time,       \* elapsed ticks between the last frame and the one before
    changes,          \* how often the frame input changed so far (capped at 2)
    gesture_buffer,   \* enhanced, tracking: the stabilization window
    gesture_history,  \* improved: the stabilization window
    admitted,         \* every label inserted into the window so far, in order
    results,          \* per hand of the last frame: raw and stabilized result
    hand_count,       \* number of hands in the last frame
    gesture,          \* the frame's main label (current_gesture / gesture / stable_gesture)
    confidence,       \* improved: the frame's confidence
    stability,        \* improved: the frame's stability ratio
    fps_buffer,       \* enhanced fps_buffer, improved fps_history
    avg_fps           \* the average the frame displays

vars == <<variant, status, buffer_size, confidence_threshold, frame_count,
          hands, frame_time, changes,
          gesture_buffer, gesture_history, admitted, results, hand_count,
          gesture, confidence, stability, fps_buffer, avg_fps>>

----------------------------------------------------------------------------
(* Program constants *)

EnhancedBufferSize == 7
HistoryMaxLen == 30
TrackingBufferSize == 5
FpsMaxLen == 30
ConfidenceThreshold == 70
EnhancedMaxHands == 2
ImprovedMaxHands == 1
TrackingMaxHands == 2
ShowFps == TRUE

(* Bounds of the model *)

\* A video of more than ShortRun frames changes its frame input at most once.
ShortRun == 3
\* A video has at most (window capacity + MaxOverflow) frames.
MaxOverflow == 2
\* A frame arrives 0..MaxElapsed ticks after the previous one.
MaxElapsed == 1

Variants == {"enhanced", "improved", "tracking"}

----------------------------------------------------------------------------
(* Hands *)

Pose(t, i, m, r, p, c) ==
    [thumb |-> t, index |-> i, middle |-> m, ring |-> r, pinky |-> p,
     tips_close |-> c]

AllPoses ==
    [thumb : BOOLEAN, index : BOOLEAN, middle : BOOLEAN, ring : BOOLEAN,
     pinky : BOOLEAN, tips_close : BOOLEAN]

Fist == Pose(FALSE, FALSE, FALSE, FALSE, FALSE, FALSE)
Peace == Pose(FALSE, TRUE, TRUE, FALSE, FALSE, FALSE)
Point == Pose(FALSE, TRUE, FALSE, FALSE, FALSE, FALSE)

B2N(b) == IF b THEN 1 ELSE 0

\* The index of the last landmark the classifiers read, the tip of the pinky.
PinkyTip == 20

\* The hands above carry the 21 landmarks of the detector.  A record with a
\* landmarks field is a hand record with that many landmarks: too few to have
\* finger states, or the landmarks of a pose followed by one more.
NumLandmarks(h) == IF "landmarks" \in DOMAIN h THEN h.landmarks ELSE PinkyTip + 1

MalformedHands ==
    {[landmarks |-> n] : n \in {0, PinkyTip}}
        \cup {[thumb |-> FALSE, index |-> TRUE, middle |-> TRUE, ring |-> FALSE,
               pinky |-> FALSE, tips_close |-> FALSE, landmarks |-> PinkyTip + 2]}

\* landmarks[20] of a shorter list raises IndexError in every classifier
IndexErrorRaised(h) == NumLandmarks(h) <= PinkyTip

----------------------------------------------------------------------------
(* Classifiers *)

\* EnhancedRecognize without the THUMBS_UP rule
EnhancedRecognizeNoThumbsUp(h) ==
    LET extended_count ==
            B2N(h.thumb) + B2N(h.index) + B2N(h.middle) + B2N(h.ring) + B2N(h.pinky)
    IN  IF h.middle /\ ~h.index /\ ~h.ring /\ ~h.pinky THEN "MIDDLE_FINGER"
        ELSE IF h.index /\ ~h.middle /\ ~h.ring /\ ~h.pinky THEN "POINTING"
        ELSE IF h.index /\ h.middle /\ ~h.ring /\ ~h.pinky THEN "PEACE"
        ELSE IF h.thumb /\ h.index /\ ~h.middle /\ ~h.ring /\ ~h.pinky /\ h.tips_close
             THEN "OK"
        ELSE IF extended_count <= 1 THEN "ROCK"
        ELSE IF extended_count >= 4 THEN "PAPER"
        ELSE IF extended_count = 3 THEN "THREE"
        ELSE "UNKNOWN"

\* enhanced: GestureRecognizer.recognize_gesture, from the finger states on
EnhancedRecognize(h) ==
    LET extended_count ==
            B2N(h.thumb) + B2N(h.index) + B2N(h.middle) + B2N(h.ring) + B2N(h.pinky)
    IN  IF h.middle /\ ~h.index /\ ~h.ring /\ ~h.pinky THEN "MIDDLE_FINGER"
        ELSE IF h.index /\ ~h.middle /\ ~h.ring /\ ~h.pinky THEN "POINTING"
        ELSE IF h.index /\ h.middle /\ ~h.ring /\ ~h.pinky THEN "PEACE"
        ELSE IF h.thumb /\ ~h.index /\ ~h.middle /\ ~h.ring /\ ~h.pinky THEN "THUMBS_UP"
        ELSE IF h.thumb /\ h.index /\ ~h.middle /\ ~h.ring /\ ~h.pinky /\ h.tips_close
             THEN "OK"
        ELSE IF extended_count <= 1 THEN "ROCK"
        ELSE IF extended_count >= 4 THEN "PAPER"
        ELSE IF extended_count = 3 THEN "THREE"
        ELSE "UNKNOWN"

\* ImprovedRecognize without the open-thumb PAPER rule for three fingers
ImprovedRecognizeNoThumbPaper(h) ==
    LET extended_count ==
            B2N(h.index) + B2N(h.middle) + B2N(h.ring) + B2N(h.pinky)
    IN  IF extended_count = 0 /\ ~h.thumb
            THEN [gesture |-> "ROCK", confidence |-> 95]
        ELSE IF extended_count = 0
            THEN [gesture |-> "ROCK", confidence |-> 85]
        ELSE IF extended_count = 2 /\ h.index /\ h.middle
            THEN IF ~h.ring /\ ~h.pinky
                    THEN [gesture |-> "SCISSORS", confidence |-> 95]
                    ELSE [gesture |-> "SCISSORS", confidence |-> 75]
        ELSE IF extended_count >= 4
            THEN [gesture |-> "PAPER", confidence |-> 95]
        ELSE IF extended_count = 1
            THEN [gesture |-> "UNKNOWN", confidence |-> 50]
        ELSE IF extended_count = 3
            THEN [gesture |-> "UNKNOWN", confidence |-> 60]
        ELSE [gesture |-> "UNKNOWN", confidence |-> 0]

\* ImprovedRecognize that counts the thumb among the extended fingers
ImprovedRecognizeCountingThumb(h) ==
    LET extended_count ==
            B2N(h.thumb) + B2N(h.index) + B2N(h.middle) + B2N(h.ring) + B2N(h.pinky)
    IN  IF extended_count = 0 /\ ~h.thumb
            THEN [gesture |-> "ROCK", confidence |-> 95]
        ELSE IF extended_count = 0
            THEN [gesture |-> "ROCK", confidence |-> 85]
        ELSE IF extended_count = 2 /\ h.index /\ h.middle
            THEN IF ~h.ring /\ ~h.pinky
                    THEN [gesture |-> "SCISSORS", confidence |-> 95]
                    ELSE [gesture |-> "SCISSORS", confidence |-> 75]
        ELSE IF extended_count >= 4
            THEN [gesture |-> "PAPER", confidence |-> 95]
        ELSE IF extended_count = 3 /\ h.thumb
            THEN [gesture |-> "PAPER", confidence |-> 85]
        ELSE IF extended_count = 1
            THEN [gesture |-> "UNKNOWN", confidence |-> 50]
        ELSE IF extended_count = 3
            THEN [gesture |-> "UNKNOWN", confidence |-> 60]
        ELSE [gesture |-> "UNKNOWN", confidence |-> 0]

\* improved: GestureRecognizer.recognize_gesture; the thumb is not counted
ImprovedRecognize(h) ==
    LET extended_count ==
            B2N(h.index) + B2N(h.middle) + B2N(h.ring) + B2N(h.pinky)
    IN  IF extended_count = 0 /\ ~h.thumb
            THEN [gesture |-> "ROCK", confidence |-> 95]
        ELSE IF extended_count = 0
            THEN [gesture |-> "ROCK", confidence |-> 85]
        ELSE IF extended_count = 2 /\ h.index /\ h.middle
            THEN IF ~h.ring /\ ~h.pinky
                    THEN [gesture |-> "SCISSORS", confidence |-> 95]
                    ELSE [gesture |-> "SCISSORS", confidence |-> 75]
        ELSE IF extended_count >= 4
            THEN [gesture |-> "PAPER", confidence |-> 95]
        ELSE IF extended_count = 3 /\ h.thumb
            THEN [gesture |-> "PAPER", confidence |-> 85]
        ELSE IF extended_count = 1
            THEN [gesture |-> "UNKNOWN", confidence |-> 50]
        ELSE IF extended_count = 3
            THEN [gesture |-> "UNKNOWN", confidence |-> 60]
        ELSE [gesture |-> "UNKNOWN", confidence |-> 0]

\* TrackingRecognize with the SCISSORS label misspelt
TrackingRecognizeMisspelt(h) ==
    LET extended_count ==
            B2N(h.thumb) + B2N(h.index) + B2N(h.middle) + B2N(h.ring) + B2N(h.pinky)
    IN  IF extended_count <= 1 THEN "ROCK"
        ELSE IF extended_count = 2
            THEN IF h.index /\ h.middle THEN "SCISSOR" ELSE "UNKNOWN"
        ELSE IF extended_count >= 4 THEN "PALM"
        ELSE "UNKNOWN"

\* tracking: recognize_gesture, from fingers_extended on
TrackingRecognize(h) ==
    LET extended_count ==
            B2N(h.thumb) + B2N(h.index) + B2N(h.middle) + B2N(h.ring) + B2N(h.pinky)
    IN  IF extended_count <= 1 THEN "ROCK"
        ELSE IF extended_count = 2
            THEN IF h.index /\ h.middle THEN "SCISSORS" ELSE "UNKNOWN"
        ELSE IF extended_count >= 4 THEN "PALM"
        ELSE "UNKNOWN"

\* what recognize_gesture of the running program returns for hand h
RecognizeResult(v, h) ==
    IF v = "enhanced" THEN [raw |-> EnhancedRecognize(h)]
    ELSE IF v = "improved"
        THEN [raw |-> ImprovedRecognize(h).gesture,
              conf |-> ImprovedRecognize(h).confidence]
    ELSE [raw |-> TrackingRecognize(h)]

----------------------------------------------------------------------------
(* Landmarks: the finger states as the classifiers derive them *)

\* A hand at landmark level: wrist, and per finger the joint at its base
\* (mcp), its middle joint (pip; ip of the thumb) and its tip, as points of
\* one line through the wrist, in thousandths of the image width.  On a line
\* calculate_distance is the absolute difference.
Wrist == 0

Collapsed == [mcp |-> Wrist, pip |-> Wrist, tip |-> Wrist]
Curled == [mcp |-> 300, pip |-> 450, tip |-> 320]
Straight == [mcp |-> 300, pip |-> 450, tip |-> 600]

FingerShapes == {Collapsed, Curled, Straight}

FingerNames == {"thumb", "index", "middle", "ring", "pinky"}

LandmarkHands == [FingerNames -> FingerShapes]

calculate_distance(p1, p2) == IF p1 >= p2 THEN p1 - p2 ELSE p2 - p1

\* enhanced: tip_to_wrist > pip_to_wrist * 0.95 and tip_to_mcp > 0.05
EnhancedFingerExtended(lm, f) ==
    /\ 100 * calculate_distance(lm[f].tip, Wrist)
          > 95 * calculate_distance(lm[f].pip, Wrist)
    /\ calculate_distance(lm[f].tip, lm[f].mcp) > 50

\* enhanced: thumb_to_index > ip_to_index * 1.1
EnhancedThumbExtended(lm) ==
    10 * calculate_distance(lm["thumb"].tip, lm["index"].mcp)
        > 11 * calculate_distance(lm["thumb"].pip, lm["index"].mcp)

\* ImprovedFingerExtended that takes a tie for straight
ImprovedFingerExtendedOrEqual(lm, f) ==
    100 * calculate_distance(lm[f].tip, lm[f].mcp)
        >= 85 * (calculate_distance(lm[f].tip, lm[f].pip)
                   + calculate_distance(lm[f].pip, lm[f].mcp))

\* improved: tip_to_mcp > (tip_to_pip + pip_to_mcp) * 0.85
ImprovedFingerExtended(lm, f) ==
    100 * calculate_distance(lm[f].tip, lm[f].mcp)
        > 85 * (calculate_distance(lm[f].tip, lm[f].pip)
                  + calculate_distance(lm[f].pip, lm[f].mcp))

\* improved: thumb_to_index > thumb_length * 0.8
ImprovedThumbExtended(lm) ==
    10 * calculate_distance(lm["thumb"].tip, lm["index"].mcp)
        > 8 * calculate_distance(lm["thumb"].tip, lm["thumb"].mcp)

\* tracking: the tip is farther from the wrist than 0.9 of the average of the
\* five tips (d > sum / 5 * 0.9); index and middle also need tip_to_mcp > 0.05
TrackingFingerExtended(lm, f) ==
    LET sum == calculate_distance(lm["thumb"].tip, Wrist)
                 + calculate_distance(lm["index"].tip, Wrist)
                 + calculate_distance(lm["middle"].tip, Wrist)
                 + calculate_distance(lm["ring"].tip, Wrist)
                 + calculate_distance(lm["pinky"].tip, Wrist)
    IN  /\ 50 * calculate_distance(lm[f].tip, Wrist) > 9 * sum
        /\ f \in {"index", "middle"} =>
              calculate_distance(lm[f].tip, lm[f].mcp) > 50

\* the finger states variant v derives from the landmarks lm
FingerStates(v, lm) ==
    IF v = "enhanced"
        THEN Pose(EnhancedThumbExtended(lm),
                  EnhancedFingerExtended(lm, "index"),
                  EnhancedFingerExtended(lm, "middle"),
                  EnhancedFingerExtended(lm, "ring"),
                  EnhancedFingerExtended(lm, "pinky"),
                  calculate_distance(lm["thumb"].tip, lm["index"].tip) < 50)
    ELSE IF v = "improved"
        THEN Pose(ImprovedThumbExtended(lm),
                  ImprovedFingerExtended(lm, "index"),
                  ImprovedFingerExtended(lm, "middle"),
                  ImprovedFingerExtended(lm, "ring"),
                  ImprovedFingerExtended(lm, "pinky"),
                  FALSE)
    ELSE Pose(TrackingFingerExtended(lm, "thumb"),
              TrackingFingerExtended(lm, "index"),
              TrackingFingerExtended(lm, "middle"),
              TrackingFingerExtended(lm, "ring"),
              TrackingFingerExtended(lm, "pinky"),
              FALSE)

----------------------------------------------------------------------------
(* Windows *)

Range(s) == {s[i] : i \in DOMAIN s}

\* the ratio 0.0
Zero == [num |-> 0, den |-> 1]

\* list.count / the tally of a label over a window
Count(x, s) == Cardinality({i \in DOMAIN s : s[i] = x})

\* DequeAppend that drops the new element when the deque is full
DequeAppendDropNew(d, x, maxlen) ==
    IF Len(d) < maxlen THEN Append(d, x) ELSE d

\* DequeAppend that never evicts
DequeAppendUnbounded(d, x, maxlen) == Append(d, x)

\* collections.deque(maxlen = maxlen).append
DequeAppend(d, x, maxlen) ==
    IF maxlen = 0 THEN d
    ELSE IF Len(d) < maxlen THEN Append(d, x) ELSE Append(Tail(d), x)

\* tracking: gesture_buffer.append(gesture), then pop(0) once over buffer_size
ListAppendPop(buf, x, size) ==
    LET b == Append(buf, x)
    IN  IF Len(b) > size THEN Tail(b) ELSE b

\* The keys of the tally in insertion order: the labels of s by first occurrence.
RECURSIVE TallyKeys(_)
TallyKeys(s) ==
    IF s = <<>> THEN <<>>
    ELSE LET front == TallyKeys(SubSeq(s, 1, Len(s) - 1))
             x == s[Len(s)]
         IN  IF x \in Range(front) THEN front ELSE Append(front, x)

\* MaxByCount that lets a later key of equal count replace the best so far
RECURSIVE MaxByCountLast(_, _)
MaxByCountLast(keys, s) ==
    IF Len(keys) = 1 THEN keys[1]
    ELSE LET best == MaxByCountLast(SubSeq(keys, 1, Len(keys) - 1), s)
             x == keys[Len(keys)]
         IN  IF Count(x, s) >= Count(best, s) THEN x ELSE best

\* max(keys, key = count): the first key, in iteration order, of maximal count
RECURSIVE MaxByCount(_, _)
MaxByCount(keys, s) ==
    IF Len(keys) = 1 THEN keys[1]
    ELSE LET best == MaxByCount(SubSeq(keys, 1, Len(keys) - 1), s)
             x == keys[Len(keys)]
         IN  IF Count(x, s) > Count(best, s) THEN x ELSE best

\* MostCommon that takes the first key of the tally, whatever its count
MostCommonFirstKey(s) == TallyKeys(s)[1]

\* enhanced: max(gesture_counts, key = gesture_counts.get)
\* improved: Counter(gesture_history).most_common(1)[0][0]
MostCommon(s) == MaxByCount(TallyKeys(s), s)

\* tracking: max(set(gesture_buffer), key = gesture_buffer.count) iterates a set
\* of strings, whose order is fixed by the process's string hashing: any label
\* of maximal count may come first.
MostCommonOfSet(s) ==
    {x \in Range(s) : \A y \in Range(s) : Count(y, s) <= Count(x, s)}

----------------------------------------------------------------------------
(* Stabilizers *)

\* EnhancedStable that accepts half of the window as a majority
EnhancedStableHalf(buf, current_gesture) ==
    IF Len(buf) < 3 THEN current_gesture
    ELSE LET most_common == MostCommon(buf)
         IN  IF Count(most_common, buf) >= Len(buf) \div 2
                THEN most_common
                ELSE current_gesture

\* enhanced: GestureRecognizer.get_stable_gesture, after the append
EnhancedStable(buf, current_gesture) ==
    IF Len(buf) < 3 THEN current_gesture
    ELSE LET most_common == MostCommon(buf)
         IN  IF Count(most_common, buf) > Len(buf) \div 2
                THEN most_common
                ELSE current_gesture

\* ImprovedAdmit without the threshold
ImprovedAdmitAlways(hist, current_gesture, current_confidence) ==
    DequeAppend(hist, current_gesture, HistoryMaxLen)

\* ImprovedAdmit that admits from confidence 0.5 on
ImprovedAdmitAboveHalf(hist, current_gesture, current_confidence) ==
    IF current_confidence >= 50
        THEN DequeAppend(hist, current_gesture, HistoryMaxLen)
        ELSE hist

\* ImprovedAdmit that clears the history on a label below the threshold
ImprovedAdmitOrClear(hist, current_gesture, current_confidence) ==
    IF current_confidence >= confidence_threshold
        THEN DequeAppend(hist, current_gesture, HistoryMaxLen)
        ELSE <<>>

\* improved: the admission step of get_stable_gesture
ImprovedAdmit(hist, current_gesture, current_confidence) ==
    IF current_confidence >= confidence_threshold
        THEN DequeAppend(hist, current_gesture, HistoryMaxLen)
        ELSE hist

\* ImprovedStable that divides by the capacity of the history
ImprovedStableOverCapacity(hist) ==
    IF Len(hist) = 0 THEN [gesture |-> "NO HAND", stability |-> Zero]
    ELSE LET most_common == MostCommon(hist)
         IN  [gesture |-> most_common,
              stability |-> [num |-> Count(most_common, hist), den |-> HistoryMaxLen]]

\* improved: what get_stable_gesture returns, after the admission step
ImprovedStable(hist) ==
    IF Len(hist) = 0 THEN [gesture |-> "NO HAND", stability |-> Zero]
    ELSE LET most_common == MostCommon(hist)
         IN  [gesture |-> most_common,
              stability |-> [num |-> Count(most_common, hist), den |-> Len(hist)]]

\* The loop over the hands of one frame.  Each returns the window after the
\* last hand, the labels inserted and the per-hand results.

RECURSIVE EnhancedHands(_, _)
EnhancedHands(buf, hs) ==
    IF hs = <<>> THEN [window |-> buf, inserted |-> <<>>, results |-> <<>>]
    ELSE LET g == EnhancedRecognize(Head(hs))
             b == DequeAppend(buf, g, buffer_size)
             rest == EnhancedHands(b, Tail(hs))
         IN  [window |-> rest.window,
              inserted |-> (IF buffer_size = 0 THEN <<>> ELSE <<g>>) \o rest.inserted,
              results |-> <<[raw |-> g, stable |-> EnhancedStable(b, g)]>>
                          \o rest.results]

RECURSIVE ImprovedHands(_, _)
ImprovedHands(hist, hs) ==
    IF hs = <<>> THEN [window |-> hist, inserted |-> <<>>, results |-> <<>>]
    ELSE LET r == ImprovedRecognize(Head(hs))
             h == ImprovedAdmit(hist, r.gesture, r.confidence)
             st == ImprovedStable(h)
             rest == ImprovedHands(h, Tail(hs))
         IN  [window |-> rest.window,
              inserted |-> (IF r.confidence >= confidence_threshold
                               THEN <<r.gesture>> ELSE <<>>) \o rest.inserted,
              results |-> <<[raw |-> r.gesture, conf |-> r.confidence,
                             stable |-> st.gesture, stability |-> st.stability]>>
                          \o rest.results]

\* tracking: the set of outcomes, one per way the ties can fall
RECURSIVE TrackingHands(_, _)
TrackingHands(buf, hs) ==
    IF hs = <<>> THEN {[window |-> buf, inserted |-> <<>>, results |-> <<>>]}
    ELSE LET g == TrackingRecognize(Head(hs))
             b == ListAppendPop(buf, g, TrackingBufferSize)
         IN  {[window |-> rest.window,
               inserted |-> <<g>> \o rest.inserted,
               results |-> <<[raw |-> g, stable |-> st]>> \o rest.results] :
                  st \in MostCommonOfSet(b), rest \in TrackingHands(b, Tail(hs))}

----------------------------------------------------------------------------
(* Frame rate *)

\* 1.0 / frame_time, in frames per second, for a frame time in ticks of 1/60 s
FpsOf(ft) == 60 \div ft

RECURSIVE Sum(_)
Sum(s) == IF s = <<>> THEN 0 ELSE Head(s) + Sum(Tail(s))

\* enhanced: GestureRecognizer.get_average_fps
AverageFps(buf) ==
    IF Len(buf) = 0 THEN Zero ELSE [num |-> Sum(buf), den |-> Len(buf)]

\* enhanced: the FPS block of process_frame; the window and the average after it
EnhancedFps(buf, avg, ft) ==
    IF ShowFps /\ ft > 0
        THEN LET b == DequeAppend(buf, FpsOf(ft), FpsMaxLen)
             IN  [raised |-> FALSE, buffer |-> b, average |-> AverageFps(b)]
        ELSE [raised |-> FALSE, buffer |-> buf, average |-> avg]

\* improved: VideoProcessor.calculate_fps; 1 / 0 raises ZeroDivisionError
\* before prev_time and fps_history are touched
CalculateFps(buf, avg, ft) ==
    IF ft = 0
        THEN [raised |-> TRUE, buffer |-> buf, average |-> avg]
        ELSE LET b == DequeAppend(buf, FpsOf(ft), FpsMaxLen)
             IN  [raised |-> FALSE, buffer |-> b,
                  average |-> [num |-> Sum(b), den |-> Len(b)]]

----------------------------------------------------------------------------
(* The videos the model runs the programs on *)

WindowCapacity(v) ==
    IF v = "enhanced" THEN buffer_size
    ELSE IF v = "improved" THEN HistoryMaxLen
    ELSE TrackingBufferSize

MaxHands(v) ==
    IF v = "enhanced" THEN EnhancedMaxHands
    ELSE IF v = "improved" THEN ImprovedMaxHands
    ELSE TrackingMaxHands

\* The hands shown to the camera: a fist, index and middle finger, and (to the
\* improved program, which drops low-confidence labels) the index finger alone.
FramePoses(v) == IF v = "improved" THEN {Fist, Peace, Point} ELSE {Fist, Peace}

FrameHands(v) ==
    UNION {[1..n -> FramePoses(v)] : n \in 0..MaxHands(v)}

Elapsed == 0..MaxElapsed

\* The changes of frame input so far, this frame included, counted up to 2
ChangesWith(hs, ft) ==
    IF frame_count > 0 /\ <<hs, ft>> # <<hands, frame_time>>
        THEN IF changes < 2 THEN changes + 1 ELSE 2
        ELSE changes

\* Videos are short, or long with at most one change of frame input.
InputAllowed(hs, ft) ==
    /\ frame_count < WindowCapacity(variant) + MaxOverflow
    /\ \/ frame_count + 1 <= ShortRun
       \/ ChangesWith(hs, ft) <= 1

----------------------------------------------------------------------------
(* The programs *)

\* enhanced: current_gesture of process_frame, the first hand's stable label
EnhancedDisplay(hs, res) ==
    IF hs = <<>> THEN "NO_HAND" ELSE res[1].stable

\* ImprovedDisplay whose defaults are not reset for each frame
ImprovedDisplayStale(hs, res) ==
    IF hs = <<>>
        THEN [gesture |-> gesture, confidence |-> confidence, stability |-> stability]
        ELSE [gesture |-> res[Len(res)].stable,
              confidence |-> res[Len(res)].conf,
              stability |-> res[Len(res)].stability]

\* improved: gesture, confidence, stability of one iteration of process: the
\* defaults, overwritten by each hand
ImprovedDisplay(hs, res) ==
    IF hs = <<>>
        THEN [gesture |-> "NO HAND", confidence |-> 0, stability |-> Zero]
        ELSE [gesture |-> res[Len(res)].stable,
              confidence |-> res[Len(res)].conf,
              stability |-> res[Len(res)].stability]

Init ==
    /\ variant \in Variants
    /\ status = "running"
    /\ buffer_size = EnhancedBufferSize
    /\ confidence_threshold = ConfidenceThreshold
    /\ frame_count = 0
    /\ hands = <<>>
    /\ frame_time = 0
    /\ changes = 0
    /\ gesture_buffer = <<>>
    /\ gesture_history = <<>>
    /\ admitted = <<>>
    /\ results = <<>>
    /\ hand_count = 0
    /\ gesture = "NONE"
    /\ confidence = 0
    /\ stability = Zero
    /\ fps_buffer = <<>>
    /\ avg_fps = Zero

\* enhanced: one iteration of run_webcam / run_video, with process_frame
EnhancedFrame(hs, ft) ==
    /\ variant = "enhanced"
    /\ status = "running"
    /\ InputAllowed(hs, ft)
    /\ LET out == EnhancedHands(gesture_buffer, hs)
           fps == EnhancedFps(fps_buffer, avg_fps, ft)
       IN  /\ gesture_buffer' = out.window
           /\ admitted' = admitted \o out.inserted
           /\ results' = out.results
           /\ gesture' = EnhancedDisplay(hs, out.results)
           /\ fps_buffer' = fps.buffer
           /\ avg_fps' = fps.average
    /\ hand_count' = Len(hs)
    /\ frame_count' = frame_count + 1
    /\ hands' = hs
    /\ frame_time' = ft
    /\ changes' = ChangesWith(hs, ft)
    /\ UNCHANGED <<variant, status, buffer_size, confidence_threshold,
                   gesture_history, confidence, stability>>

\* improved: one iteration of the loop of VideoProcessor.process
ImprovedFrame(hs, ft) ==
    /\ variant = "improved"
    /\ status = "running"
    /\ InputAllowed(hs, ft)
    /\ LET out == ImprovedHands(gesture_history, hs)
           shown == ImprovedDisplay(hs, out.results)
           fps == CalculateFps(fps_buffer, avg_fps, ft)
       IN  /\ gesture_history' = out.window
           /\ admitted' = admitted \o out.inserted
           /\ results' = out.results
           /\ gesture' = shown.gesture
           /\ confidence' = shown.confidence
           /\ stability' = shown.stability
           /\ fps_buffer' = fps.buffer
           /\ avg_fps' = fps.average
           /\ status' = IF fps.raised THEN "error" ELSE "running"
    /\ hand_count' = Len(hs)
    /\ frame_count' = frame_count + 1
    /\ hands' = hs
    /\ frame_time' = ft
    /\ changes' = ChangesWith(hs, ft)
    /\ UNCHANGED <<variant, buffer_size, confidence_threshold, gesture_buffer>>

\* tracking: one iteration of the loop of process_video / process_webcam; the
\* program measures no time, and a frame without hands draws no gesture
TrackingFrame(hs) ==
    /\ variant = "tracking"
    /\ status = "running"
    /\ InputAllowed(hs, 0)
    /\ \E out \in TrackingHands(gesture_buffer, hs) :
           /\ gesture_buffer' = out.window
           /\ admitted' = admitted \o out.inserted
           /\ results' = out.results
           /\ gesture' = IF hs = <<>> THEN gesture
                         ELSE out.results[Len(out.results)].stable
    /\ hand_count' = Len(hs)
    /\ frame_count' = frame_count + 1
    /\ hands' = hs
    /\ changes' = ChangesWith(hs, 0)
    /\ UNCHANGED <<variant, status, buffer_size, confidence_threshold,
                   frame_time, gesture_history, confidence, stability,
                   fps_buffer, avg_fps>>

Next ==
    \/ \E hs \in FrameHands("enhanced"), ft \in Elapsed : EnhancedFrame(hs, ft)
    \/ \E hs \in FrameHands("improved"), ft \in Elapsed : ImprovedFrame(hs, ft)
    \/ \E hs \in FrameHands("tracking") : TrackingFrame(hs)

Spec == Init /\ [][Next]_vars

----------------------------------------------------------------------------
(* The classifiers alone: recognize_gesture called once on an arbitrary hand *)

InitClassify ==
    /\ variant \in Variants
    /\ status = "running"
    /\ buffer_size = EnhancedBufferSize
    /\ confidence_threshold = ConfidenceThreshold
    /\ frame_count = 0
    /\ hands \in {<<h>> : h \in AllPoses \cup MalformedHands}
    /\ frame_time = 0
    /\ changes = 0
    /\ gesture_buffer = <<>>
    /\ gesture_history = <<>>
    /\ admitted = <<>>
    /\ results = <<>>
    /\ hand_count = 0
    /\ gesture = "NONE"
    /\ confidence = 0
    /\ stability = Zero
    /\ fps_buffer = <<>>
    /\ avg_fps = Zero

\* Nothing between recognize_gesture and the top of the program catches the
\* IndexError of a short landmark list.
Recognize ==
    /\ frame_count = 0
    /\ status = "running"
    /\ hands # <<>>
    /\ results = <<>>
    /\ IF IndexErrorRaised(hands[1])
          THEN /\ status' = "error"
               /\ results' = results
          ELSE /\ status' = status
               /\ results' = <<RecognizeResult(variant, hands[1])>>
    /\ UNCHANGED <<variant, buffer_size, confidence_threshold, frame_count,
                   hands, frame_time, changes, gesture_buffer, gesture_history,
                   admitted, hand_count, gesture, confidence, stability,
                   fps_buffer, avg_fps>>

NextClassify == Recognize

SpecClassify == InitClassify /\ [][NextClassify]_vars

----------------------------------------------------------------------------
(* The recognizers constructed with other arguments than the programs pass *)

\* buffer_size arguments of the enhanced GestureRecognizer
BufferSizes == {-1, 0, EnhancedBufferSize}

\* confidence_threshold arguments of the improved GestureRecognizer
Thresholds == {-10, ConfidenceThreshold, 150}

InitConfig ==
    /\ variant \in {"enhanced", "improved"}
    /\ status = "new"
    /\ buffer_size \in (IF variant = "enhanced" THEN BufferSizes
                         ELSE {EnhancedBufferSize})
    /\ confidence_threshold \in (IF variant = "improved" THEN Thresholds
                                  ELSE {ConfidenceThreshold})
    /\ frame_count = 0
    /\ hands = <<>>
    /\ frame_time = 0
    /\ changes = 0
    /\ gesture_buffer = <<>>
    /\ gesture_history = <<>>
    /\ admitted = <<>>
    /\ results = <<>>
    /\ hand_count = 0
    /\ gesture = "NONE"
    /\ confidence = 0
    /\ stability = Zero
    /\ fps_buffer = <<>>
    /\ avg_fps = Zero

\* GestureRecognizer.__init__: enhanced builds deque(maxlen = buffer_size),
\* which raises ValueError for a negative maxlen and for nothing else;
\* improved stores the threshold as it is.
Construct ==
    /\ status = "new"
    /\ status' = IF variant = "enhanced" /\ buffer_size < 0
                     THEN "error" ELSE "running"
    /\ UNCHANGED <<variant, buffer_size, confidence_threshold, frame_count,
                   hands, frame_time, changes, gesture_buffer, gesture_history,
                   admitted, results, hand_count, gesture, confidence,
                   stability, fps_buffer, avg_fps>>

NextConfig ==
    \/ Construct
    \/ \E hs \in FrameHands("enhanced"), ft \in Elapsed : EnhancedFrame(hs, ft)
    \/ \E hs \in FrameHands("improved"), ft \in Elapsed : ImprovedFrame(hs, ft)

SpecConfig == InitConfig /\ [][NextConfig]_vars

----------------------------------------------------------------------------
(* recognize_gesture from the landmarks on: finger states, then the rules *)

InitGeometry ==
    /\ variant \in Variants
    /\ status = "running"
    /\ buffer_size = EnhancedBufferSize
    /\ confidence_threshold = ConfidenceThreshold
    /\ frame_count = 0
    /\ hands \in {<<lm>> : lm \in LandmarkHands}
    /\ frame_time = 0
    /\ changes = 0
    /\ gesture_buffer = <<>>
    /\ gesture_history = <<>>
    /\ admitted = <<>>
    /\ results = <<>>
    /\ hand_count = 0
    /\ gesture = "NONE"
    /\ confidence = 0
    /\ stability = Zero
    /\ fps_buffer = <<>>
    /\ avg_fps = Zero

\* No step from the landmarks to the label can raise: the distances are square
\* roots of sums of squares, they are only multiplied and compared, and the
\* one division is by 5.
RecognizeLandmarks ==
    /\ status = "running"
    /\ results = <<>>
    /\ LET fingers == FingerStates(variant, hands[1])
       IN  results' = <<[fingers |-> fingers,
                         result |-> RecognizeResult(variant, fingers)]>>
    /\ UNCHANGED <<variant, status, buffer_size, confidence_threshold,
                   frame_count, hands, frame_time, changes, gesture_buffer,
                   gesture_history, admitted, hand_count, gesture, confidence,
                   stability, fps_buffer, avg_fps>>

NextGeometry == RecognizeLandmarks

SpecGeometry == InitGeometry /\ [][NextGeometry]_vars

----------------------------------------------------------------------------
(* Properties *)

NoHandLabels == {"NO_HAND", "NO HAND"}

Enumeration ==
    {"ROCK", "PAPER", "SCISSORS", "PEACE", "THREE", "POINTING", "THUMBS_UP",
     "MIDDLE_FINGER", "OK", "UNKNOWN", "NO_HAND"}

\* the stabilization window of the running program
Window == IF variant = "improved" THEN gesture_history ELSE gesture_buffer

\* the last n elements of s (all of s when it is shorter)
LastN(s, n) == IF Len(s) <= n THEN s ELSE SubSeq(s, Len(s) - n + 1, Len(s))

\* the window as it was after the k-th insert
WindowAfter(k) == LastN(SubSeq(admitted, 1, k), WindowCapacity(variant))

\* the labels with a strict majority in w (at most one)
StrictMajority(w) == {x \in Range(w) : Count(x, w) > Len(w) \div 2}

ExtendedFingers(h) ==
    {f \in {"thumb", "index", "middle", "ring", "pinky"} : h[f]}

\* C1: in every variant the stabilization window holds exactly the most recent
\* min(k, N) admitted labels in arrival order (k admissions so far, N the
\* capacity: 7, 30, 5), so it never exceeds N and a full window evicts its
\* oldest entry.
C1_WindowIsMostRecent ==
    /\ Len(Window) <= WindowCapacity(variant)
    /\ Window = LastN(admitted, WindowCapacity(variant))
    /\ WindowCapacity(variant) =
          (IF variant = "enhanced" THEN 7 ELSE IF variant = "improved" THEN 30 ELSE 5)

C1_Witness ==
    /\ variant = "improved"
    /\ Len(admitted) > HistoryMaxLen
    /\ admitted[1] # admitted[Len(admitted)]

\* C2 as stated: recognize returns, for every finger-state vector and in each
\* variant, a label of the closed enumeration, and a confidence (where one is
\* returned) in [0, 1].
C2_LabelInEnumeration ==
    results # <<>> =>
        /\ results[1].raw \in Enumeration
        /\ variant = "improved" => results[1].conf \in 0..100

\* C2 amended: as C2, except that the tracking variant returns PALM, which is
\* not in the enumeration, where at least four fingers are extended.
C2_LabelInEnumerationOrPalm ==
    results # <<>> =>
        /\ \/ results[1].raw \in Enumeration
           \/ /\ variant = "tracking"
              /\ results[1].raw = "PALM"
              /\ Cardinality(ExtendedFingers(hands[1])) >= 4
        /\ variant = "improved" => results[1].conf \in 0..100

C2_Witness ==
    /\ variant = "tracking"
    /\ results # <<>>
    /\ results[1].raw = "PALM"

\* C3: in the improved variant a call of get_stable_gesture with a confidence
\* below the threshold leaves the gesture history as it was.
C3_BelowThresholdKeepsHistory ==
    [][(/\ variant = "improved"
        /\ frame_count' = frame_count + 1
        /\ hand_count' = 1
        /\ results'[1].conf < ConfidenceThreshold)
       => /\ gesture_history' = gesture_history
          /\ admitted' = admitted]_vars

C3_Witness ==
    /\ variant = "improved"
    /\ hand_count = 1
    /\ results[1].conf < ConfidenceThreshold
    /\ Len(gesture_history) >= 2

\* C4: a frame without hands yields the no-hand label (in the improved variant
\* with confidence 0.0 and stability 0.0) whatever the window holds, and leaves
\* the window unchanged.
C4_NoHandFrame ==
    [][(frame_count' = frame_count + 1 /\ hand_count' = 0)
       => /\ Window' = Window
          /\ variant = "enhanced" => gesture' = "NO_HAND"
          /\ variant = "improved" =>
                gesture' = "NO HAND" /\ confidence' = 0 /\ stability' = Zero]_vars

C4_Witness ==
    /\ variant = "improved"
    /\ frame_count > 0
    /\ hand_count = 0
    /\ gesture = "NO HAND"
    /\ Len(gesture_history) >= 2

\* C5: the no-hand label is reported for a frame only when the frame had no
\* hands.
C5_NoHandOnlyWithoutHands ==
    (frame_count > 0 /\ status = "running" /\ gesture \in NoHandLabels)
        => hand_count = 0

\* C6: in the enhanced variant get_stable_gesture returns, for the window as it
\* is after the insert (of any length), the label with a count above
\* length // 2 when there is one and else the raw label; A,B,A,A,B,A fed into an
\* empty window ends with A.
C6_MajorityRequired ==
    (variant = "enhanced" /\ hand_count > 0) =>
        /\ \A i \in 1..hand_count :
              LET w == WindowAfter(Len(admitted) - hand_count + i)
              IN  IF StrictMajority(w) # {}
                     THEN StrictMajority(w) = {results[i].stable}
                     ELSE results[i].stable = results[i].raw
        /\ \A a, b \in Range(admitted) :
              (a # b /\ admitted = <<a, b, a, a, b, a>>)
                  => results[hand_count].stable = a

C6_Witness ==
    /\ variant = "enhanced"
    /\ admitted = <<"ROCK", "PEACE", "ROCK", "ROCK", "PEACE", "ROCK">>
    /\ results[hand_count].stable = "ROCK"

\* C7: in the improved variant, each of the first N admissions of one and the
\* same label into the empty window (N = 30) reports that label with stability
\* 1.0.
C7_SameLabelIsStable ==
    (/\ variant = "improved"
     /\ hand_count = 1
     /\ results[1].conf >= ConfidenceThreshold
     /\ Len(admitted) <= HistoryMaxLen
     /\ \A i \in DOMAIN admitted : admitted[i] = admitted[1])
    => /\ results[1].stable = admitted[1]
       /\ results[1].stability = [num |-> Len(admitted), den |-> Len(admitted)]
       /\ gesture = admitted[1]
       /\ stability.num = stability.den

C7_Witness ==
    /\ variant = "improved"
    /\ hand_count = 1
    /\ results[1].conf >= ConfidenceThreshold
    /\ Len(admitted) = HistoryMaxLen
    /\ \A i \in DOMAIN admitted : admitted[i] = "SCISSORS"
    /\ stability = [num |-> HistoryMaxLen, den |-> HistoryMaxLen]

\* C8: in the improved variant, after the admission step, a non-empty history
\* gives a label of maximal count and the stability count / length, which is in
\* [1/length, 1]; an empty history gives ("NO HAND", 0.0).
C8_AlwaysReport ==
    (variant = "improved" /\ hand_count = 1) =>
        IF gesture_history = <<>>
            THEN gesture = "NO HAND" /\ stability = Zero
            ELSE /\ gesture \in Range(gesture_history)
                 /\ \A y \in Range(gesture_history) :
                        Count(y, gesture_history) <= Count(gesture, gesture_history)
                 /\ stability = [num |-> Count(gesture, gesture_history),
                                 den |-> Len(gesture_history)]
                 /\ 1 <= stability.num /\ stability.num <= stability.den

C8_Witness ==
    /\ variant = "improved"
    /\ hand_count = 1
    /\ gesture = "SCISSORS"
    /\ Count("ROCK", gesture_history) >= 1
    /\ stability.num > 1
    /\ stability.num < stability.den

\* C9: in the variants that track the frame rate, a frame with frame time 0
\* raises no error.
C9_ZeroFrameTimeRaisesNothing ==
    (variant \in {"enhanced", "improved"} /\ frame_count > 0 /\ frame_time = 0)
        => status = "running"

\* C10: the enhanced classifier returns MIDDLE_FINGER exactly for the extended
\* set {middle}, POINTING exactly for {index}, PEACE exactly for {index, middle}.
C10_ExactFingerSets ==
    (variant = "enhanced" /\ results # <<>>) =>
        /\ results[1].raw = "MIDDLE_FINGER" <=> ExtendedFingers(hands[1]) = {"middle"}
        /\ results[1].raw = "POINTING" <=> ExtendedFingers(hands[1]) = {"index"}
        /\ results[1].raw = "PEACE" <=> ExtendedFingers(hands[1]) = {"index", "middle"}

\* C11: in the enhanced classifier, a hand with exactly the thumb and the index
\* finger extended and the two tips closer than 0.05 is labelled OK.
C11_ThumbIndexCloseIsOk ==
    (variant = "enhanced" /\ results # <<>>
        /\ ExtendedFingers(hands[1]) = {"thumb", "index"} /\ hands[1].tips_close)
        => results[1].raw = "OK"

C13_FourOrMoreIsPaper ==
    (variant \in {"enhanced", "improved"} /\ results # <<>>
        /\ Cardinality(ExtendedFingers(hands[1])) >= 4)
        => results[1].raw = "PAPER"

C13_Witness ==
    /\ variant = "improved"
    /\ results # <<>>
    /\ ExtendedFingers(hands[1]) = {"thumb", "index", "middle", "pinky"}
    /\ results[1].raw = "PAPER"
    /\ results[1].conf = 85

\* C14: the improved classifier returns (SCISSORS, 0.95) for some hand and
\* (SCISSORS, 0.75) for some hand.
C14_BothScissorsConfidences ==
    (variant = "improved" /\ results # <<>>) =>
        /\ \E h \in AllPoses :
              RecognizeResult(variant, h) = [raw |-> "SCISSORS", conf |-> 95]
        /\ \E h \in AllPoses :
              RecognizeResult(variant, h) = [raw |-> "SCISSORS", conf |-> 75]

\* C15: in the improved classifier, whatever the thumb does, four flexed
\* fingers give ROCK with confidence at least 0.85, four extended fingers give
\* PAPER with confidence at least 0.85, and index and middle extended with ring
\* and pinky flexed give SCISSORS with confidence at least 0.75.
C15_CoreGestures ==
    (variant = "improved" /\ results # <<>>) =>
        LET fingers == ExtendedFingers(hands[1]) \ {"thumb"}
        IN  /\ fingers = {} =>
                  (results[1].raw = "ROCK" /\ results[1].conf >= 85)
            /\ fingers = {"index", "middle", "ring", "pinky"} =>
                  (results[1].raw = "PAPER" /\ results[1].conf >= 85)
            /\ fingers = {"index", "middle"} =>
                  (results[1].raw = "SCISSORS" /\ results[1].conf >= 75)

C15_Witness ==
    /\ variant = "improved"
    /\ results # <<>>
    /\ ExtendedFingers(hands[1]) = {"thumb"}
    /\ results[1].raw = "ROCK"
    /\ results[1].conf = 85

\* C16: a stabilization window receives the labels of one hand-slot only: on a
\* frame with two detected hands the label of the second hand is not inserted
\* into the window that stabilizes the first hand.
C16_WindowTakesOneHand ==
    [][hand_count' = 2 => admitted' = Append(admitted, results'[1].raw)]_vars

\* the labels of maximal count in s
TopLabels(s) == {x \in Range(s) : \A y \in Range(s) : Count(y, s) <= Count(x, s)}

\* the position of the first occurrence of x in s
FirstIndex(x, s) == CHOOSE i \in DOMAIN s : s[i] = x /\ \A j \in 1..(i - 1) : s[j] # x

\* C17: the improved stabilizer reports, among the labels that tie for the
\* highest count in the history, the one whose first occurrence is the oldest,
\* so the reported label is a function of the ordered history.
C17_TieGoesToOldest ==
    (variant = "improved" /\ hand_count > 0 /\ gesture_history # <<>>) =>
        /\ gesture \in TopLabels(gesture_history)
        /\ \A y \in TopLabels(gesture_history) :
              FirstIndex(gesture, gesture_history) <= FirstIndex(y, gesture_history)

C17_Witness ==
    /\ variant = "improved"
    /\ hand_count > 0
    /\ Cardinality(TopLabels(gesture_history)) = 2
    /\ Count(gesture, gesture_history) >= 2
    /\ gesture_history[Len(gesture_history)] # gesture

\* C18: a hand record that does not hold exactly 21 landmarks raises no error:
\* recognize_gesture returns UNKNOWN for it, with confidence 0 where there is
\* a confidence, and the stabilization window is left as it was.
C18_MalformedHandDegrades ==
    (hands # <<>> /\ NumLandmarks(hands[1]) # 21
        /\ (results # <<>> \/ status = "error")) =>
        /\ status = "running"
        /\ results[1].raw = "UNKNOWN"
        /\ "conf" \in DOMAIN results[1] => results[1].conf = 0
        /\ Window = <<>>

\* C19: a recognizer constructed with a window capacity that is not positive
\* or with a confidence threshold outside [0,1] is rejected by its
\* constructor, so no frame is processed under such a configuration.
C19_BadConfigurationRejected ==
    (status # "new"
        /\ (WindowCapacity(variant) <= 0 \/ confidence_threshold \notin 0..100)) =>
        /\ status = "error"
        /\ frame_count = 0

\* C20: in the tracking variant the stable label is a function of the ordered
\* buffer alone: the label reported for a buffer is the only label the program
\* can report for it, also when two labels tie for the highest count, so two
\* runs over the same raw labels report the same label on every frame.
C20_StableLabelIsFunctionOfBuffer ==
    (variant = "tracking" /\ hand_count > 0) =>
        MostCommonOfSet(gesture_buffer) = {gesture}

\* every landmark of the hand is at the wrist
Degenerate(lm) == \A f \in FingerNames : lm[f] = Collapsed

\* C21: for a hand whose 21 landmarks all coincide no variant raises an error,
\* every finger is found flexed and the label is ROCK.
C21_DegenerateHandIsRock ==
    (Degenerate(hands[1]) /\ (results # <<>> \/ status = "error")) =>
        /\ status = "running"
        /\ ExtendedFingers(results[1].fingers) = {}
        /\ results[1].result.raw = "ROCK"

C21_Witness ==
    /\ variant = "tracking"
    /\ Degenerate(hands[1])
    /\ results # <<>>
    /\ results[1].result.raw = "ROCK"

\* C24: the enhanced classifier returns ROCK exactly when no finger is
\* extended, or the ring finger alone, or the pinky alone; the thumb alone gives
\* THUMBS_UP; UNKNOWN is returned only for hands with exactly two extended
\* fingers.
C24_RockAndUnknown ==
    (variant = "enhanced" /\ results # <<>>) =>
        /\ results[1].raw = "ROCK" <=>
              ExtendedFingers(hands[1]) \in {{}, {"ring"}, {"pinky"}}
        /\ ExtendedFingers(hands[1]) = {"thumb"} => results[1].raw = "THUMBS_UP"
        /\ results[1].raw = "UNKNOWN" =>
              Cardinality(ExtendedFingers(hands[1])) = 2

C24_Witness ==
    /\ variant = "enhanced"
    /\ results # <<>>
    /\ ExtendedFingers(hands[1]) = {"thumb"}
    /\ results[1].raw = "THUMBS_UP"

ThreeGestures == {"ROCK", "SCISSORS", "PAPER"}

\* C22: in the improved variant with threshold 0.7 every UNKNOWN result of the
\* classifier has a confidence below the threshold and every ROCK, SCISSORS or
\* PAPER result one at or above it, so the gesture history holds only ROCK,
\* SCISSORS and PAPER and the stabilized label is never UNKNOWN.
C22_HistoryHoldsGesturesOnly ==
    variant = "improved" =>
        /\ \A h \in AllPoses :
              LET r == ImprovedRecognize(h)
              IN  /\ r.gesture \in ThreeGestures \cup {"UNKNOWN"}
                  /\ r.gesture = "UNKNOWN" => r.confidence < confidence_threshold
                  /\ r.gesture \in ThreeGestures => r.confidence >= confidence_threshold
        /\ confidence_threshold = 70
        /\ Range(gesture_history) \subseteq ThreeGestures
        /\ gesture # "UNKNOWN"
        /\ \A i \in DOMAIN results : results[i].stable # "UNKNOWN"

C22_Witness ==
    /\ variant = "improved"
    /\ hand_count = 1
    /\ results[1].raw = "UNKNOWN"
    /\ gesture \in ThreeGestures
    /\ Cardinality(Range(gesture_history)) = 2

\* C23: in the enhanced variant, with N = 7, a call of get_stable_gesture that
\* is the last of N // 2 + 1 = 4 or more consecutive calls with the same raw
\* label returns that label, whatever the window held before.
C23_FourCallsSettle ==
    variant = "enhanced" =>
        \A i \in DOMAIN results :
            LET k == Len(admitted) - Len(results) + i
                n == EnhancedBufferSize \div 2 + 1
            IN  (/\ n = 4
                 /\ k >= n
                 /\ \A j \in (k - n + 1)..k : admitted[j] = results[i].raw)
                    => results[i].stable = results[i].raw

C23_Witness ==
    /\ variant = "enhanced"
    /\ Len(gesture_buffer) = 7
    /\ gesture_buffer[1] = gesture_buffer[3]
    /\ gesture_buffer[3] # gesture_buffer[4]
    /\ \A j \in 4..7 : gesture_buffer[j] = gesture_buffer[7]
    /\ Len(admitted) > 7
    /\ results[Len(results)].stable = gesture_buffer[7]

\* C25: in the improved variant, once a label has been admitted the gesture
\* history never becomes empty or shorter: a frame without hands and a label
\* below the threshold leave it as it was, and every later call of
\* get_stable_gesture returns a label of the history, never "NO HAND", with a
\* stability above 0.
C25_HistoryNeverEmpties ==
    [][(variant = "improved" /\ admitted # <<>>) =>
          /\ gesture_history' # <<>>
          /\ Len(gesture_history') >= Len(gesture_history)
          /\ hand_count' = 0 => gesture_history' = gesture_history
          /\ \A i \in DOMAIN results' :
                /\ results'[i].stable \in Range(gesture_history')
                /\ results'[i].stable # "NO HAND"
                /\ results'[i].stability.num > 0
                /\ results'[i].conf < confidence_threshold =>
                      gesture_history' = gesture_history]_vars

C25_Witness ==
    /\ variant = "improved"
    /\ admitted # <<>>
    /\ frame_count >= Len(admitted) + 2
    /\ hand_count = 1
    /\ results[1].conf < confidence_threshold
    /\ results[1].stable \in Range(gesture_history)
    /\ results[1].stability.num > 0

====
